---------------------------- MODULE Spec2Model ----------------------------
(***************************************************************************)
(* A model of build_graph.py (class MedicalGraph): the line-delimited JSON *)
(* loader, the node batch writer, the schema initializer, the dynamic      *)
(* relationship writer and the pipeline driver, together with the graph    *)
(* store they talk to through self.g.run.                                  *)
(*                                                                         *)
(* Four specifications share the variables:                                *)
(*   SpecLoad   load_data applied to a file (a sequence of lines)          *)
(*   SpecNodes  create_nodes_batch called repeatedly on one input          *)
(*   SpecRel    create_relationships_dynamic called on an edge list        *)
(*   Spec       the __main__ driver: nodes, schema, relationships          *)
(***************************************************************************)
EXTENDS Integers, Sequences, FiniteSets, Bags, TLC

VARIABLES
    pc,          \* position of the running call / of the driver
    exc,         \* the exception that left the call ("none": returned)
    stmts,       \* every self.g.run call made so far, in order
    g,           \* the graph store: nodes, uniqueness constraints, indexes
    lines,       \* load_data: the lines of the file being read
    datas,       \* load_data: the list it returns
    label,       \* create_nodes_batch: its label argument
    nodes,       \* create_nodes_batch: its nodes argument
    edges,       \* create_relationships_dynamic: its edges argument
    attr_keys,   \* create_relationships_dynamic: its attr_keys argument
    rel_groups,  \* create_relationships_dynamic: the groups it has built
    runs         \* number of calls made so far (SpecNodes)

vars == <<pc, exc, stmts, g, lines, datas, label, nodes, edges, attr_keys,
          rel_groups, runs>>

(***************************************************************************)
(* Bounds of the model.                                                    *)
(***************************************************************************)
MaxLines == 3
MaxNodes == 2
MaxRuns == 2
MaxEdges == 2

(***************************************************************************)
(* JSON values.  A scalar is a record [t, s, n]: its type tag, its string  *)
(* payload and its integer payload (the length, for a list).  A dict is a  *)
(* function on Keys; a key the dict does not hold maps to Absent.  A       *)
(* parsed line is a record [t, s, n, o] with o the dict of an object.      *)
(***************************************************************************)
Keys == {"name", "code", "rel", "company_name", "industry_name", "rel_weight"}

Absent == [t |-> "absent", s |-> "", n |-> 0]
VNull == [t |-> "null", s |-> "", n |-> 0]
VStr(x) == [t |-> "str", s |-> x, n |-> 0]
VInt(i) == [t |-> "int", s |-> "", n |-> i]
VBool(b) == [t |-> "bool", s |-> "", n |-> IF b THEN 1 ELSE 0]
VList(len) == [t |-> "list", s |-> "", n |-> len]

EmptyDict == [k \in Keys |-> Absent]
JObj(d) == [t |-> "obj", s |-> "", n |-> 0, o |-> d]
JScalar(v) == [t |-> v.t, s |-> v.s, n |-> v.n, o |-> EmptyDict]

\* k in d
HasKey(d, k) == d[k] # Absent

\* Python truthiness of a parsed value: `if obj`.
Truthy(j) ==
    CASE j.t = "obj" -> \E k \in Keys : HasKey(j.o, k)
      [] j.t = "null" -> FALSE
      [] j.t = "str" -> j.s # ""
      [] j.t = "int" -> j.n # 0
      [] j.t = "bool" -> j.n = 1
      [] j.t = "list" -> j.n > 0
      [] OTHER -> FALSE

(***************************************************************************)
(* The record loader.                                                      *)
(***************************************************************************)
\* The lines a file may hold.
SampleLines ==
    { "\n",
      "   \n",
      "not json\n",
      "{\"name\": }\n",
      "{\"name\": \"Acme\"}\n",
      "  {\"name\": \"Bolt\", \"code\": 0}  \n",
      "{}\n",
      "0\n",
      "null\n",
      "[]\n",
      "7\n" }

\* A line of an edge file.
EdgeLine ==
    "{\"company_name\": \"Acme\", \"industry_name\": \"Tech\", \"rel\": \"BELONGS_TO\"}\n"

\* line.strip()
Strip(line) ==
    CASE line = "\n" -> ""
      [] line = "   \n" -> ""
      [] line = "not json\n" -> "not json"
      [] line = "{\"name\": }\n" -> "{\"name\": }"
      [] line = "{\"name\": \"Acme\"}\n" -> "{\"name\": \"Acme\"}"
      [] line = "  {\"name\": \"Bolt\", \"code\": 0}  \n"
           -> "{\"name\": \"Bolt\", \"code\": 0}"
      [] line = "{}\n" -> "{}"
      [] line = "0\n" -> "0"
      [] line = "null\n" -> "null"
      [] line = "[]\n" -> "[]"
      [] line = "7\n" -> "7"
      [] line = EdgeLine
           -> "{\"company_name\": \"Acme\", \"industry_name\": \"Tech\", \"rel\": \"BELONGS_TO\"}"
      [] OTHER -> line

\* json.loads(text): [ok |-> FALSE] stands for json.JSONDecodeError.
JsonLoads(text) ==
    CASE text = "{\"name\": \"Acme\"}"
           -> [ok |-> TRUE,
               val |-> JObj([EmptyDict EXCEPT !["name"] = VStr("Acme")])]
      [] text = "{\"name\": \"Bolt\", \"code\": 0}"
           -> [ok |-> TRUE,
               val |-> JObj([EmptyDict EXCEPT !["name"] = VStr("Bolt"),
                                              !["code"] = VInt(0)])]
      [] text = "{}" -> [ok |-> TRUE, val |-> JObj(EmptyDict)]
      [] text = "0" -> [ok |-> TRUE, val |-> JScalar(VInt(0))]
      [] text = "null" -> [ok |-> TRUE, val |-> JScalar(VNull)]
      [] text = "[]" -> [ok |-> TRUE, val |-> JScalar(VList(0))]
      [] text = "7" -> [ok |-> TRUE, val |-> JScalar(VInt(7))]
      [] text = "{\"company_name\": \"Acme\", \"industry_name\": \"Tech\", \"rel\": \"BELONGS_TO\"}"
           -> [ok |-> TRUE,
               val |-> JObj([EmptyDict EXCEPT
                                !["company_name"] = VStr("Acme"),
                                !["industry_name"] = VStr("Tech"),
                                !["rel"] = VStr("BELONGS_TO")])]
      [] OTHER -> [ok |-> FALSE, val |-> JScalar(VNull)]

\* The mutant of LoadLine: the parsed value is appended whatever it is.
LoadLineKeepFalsy(acc, line) ==
    LET text == Strip(line)
        r == JsonLoads(text)
    IN  IF text = "" THEN acc
        ELSE IF r.ok THEN Append(acc, r.val) ELSE acc

\* One iteration of the loop of load_data.
LoadLine(acc, line) ==
    LET text == Strip(line)
        r == JsonLoads(text)
    IN  IF text = "" THEN acc
        ELSE IF ~r.ok THEN acc
        ELSE IF Truthy(r.val) THEN Append(acc, r.val)
        ELSE acc

RECURSIVE LoadFrom(_, _, _)
LoadFrom(acc, f, i) ==
    IF i > Len(f) THEN acc ELSE LoadFrom(LoadLine(acc, f[i]), f, i + 1)

\* load_data(filename), given the lines of the file.
load_data(f) == LoadFrom(<<>>, f, 1)

SeqsUpTo(S, n) == UNION {[1..m -> S] : m \in 0..n}

NoStore == [nodes |-> EmptyBag, uniq |-> {}, idx |-> {}]

InitLoad ==
    /\ pc = "load"
    /\ exc = "none"
    /\ stmts = <<>>
    /\ g = NoStore
    /\ lines \in SeqsUpTo(SampleLines, MaxLines)
    /\ datas = <<>>
    /\ label = ""
    /\ nodes = <<>>
    /\ edges = <<>>
    /\ attr_keys = <<>>
    /\ rel_groups = <<>>
    /\ runs = 0

CallLoadData ==
    /\ pc = "load"
    /\ datas' = load_data(lines)
    /\ pc' = "loaded"
    /\ UNCHANGED <<exc, stmts, g, lines, label, nodes, edges, attr_keys,
                   rel_groups, runs>>

NextLoad == CallLoadData

SpecLoad == InitLoad /\ [][NextLoad]_vars

(***************************************************************************)
(* The graph store, as the statements of build_graph.py use it.            *)
(***************************************************************************)
Labels == {"company", "product", "industry"}

\* What the store may answer to a statement apart from what the statement
\* itself decides: "error" is any failure of the run (connection, query).
Replies == {"ok", "error"}

\* One self.g.run call, as logged: the kind of statement, the label (or the
\* relationship type) it names, its $batch parameter, the attributes its
\* SET clause names (a relationship statement only) and whether it succeeded.
Stmt(kind, lbl, batch, ok) ==
    [kind |-> kind, label |-> lbl, batch |-> batch, set |-> {}, ok |-> ok]

RECURSIVE BatchBag(_, _)
BatchBag(lbl, batch) ==
    IF batch = <<>> THEN EmptyBag
    ELSE SetToBag({[label |-> lbl, props |-> Head(batch)]})
             (+) BatchBag(lbl, Tail(batch))

\* Two nodes of one label in bag b share a name.
NamesClash(b, lbl) ==
    \E x \in BagToSet(b), y \in BagToSet(b) :
        /\ x.label = lbl /\ y.label = lbl
        /\ HasKey(x.props, "name")
        /\ x.props["name"] = y.props["name"]
        /\ (x # y \/ CopiesIn(x, b) > 1)

\* The mutant of g_run_create: MERGE on name instead of CREATE, so a row
\* whose name the label already holds adds no node.
g_run_merge(store, lbl, batch, reply) ==
    LET fresh == SelectSeq(batch, LAMBDA row :
                     ~\E x \in BagToSet(store.nodes) :
                         /\ x.label = lbl
                         /\ x.props["name"] = row["name"])
        ok == reply = "ok"
    IN  [g |-> IF ok
               THEN [store EXCEPT !.nodes = @ (+) BatchBag(lbl, fresh)]
               ELSE store,
         ok |-> ok]

\* UNWIND $batch AS row CREATE (n:label) SET n = row: one new node per row;
\* the whole statement fails, and adds nothing, on an error of the run or
\* when a uniqueness constraint on the label's name would be broken.
g_run_create(store, lbl, batch, reply) ==
    LET after == store.nodes (+) BatchBag(lbl, batch)
        ok == reply = "ok" /\ ~(lbl \in store.uniq /\ NamesClash(after, lbl))
    IN  [g |-> IF ok THEN [store EXCEPT !.nodes = after] ELSE store,
         ok |-> ok]

(***************************************************************************)
(* The node batch writer.                                                  *)
(***************************************************************************)
\* The mutant of Cleaned: every falsy value is dropped (`if v`).
CleanedDropFalsy(node) ==
    [k \in Keys |-> IF HasKey(node.o, k) /\ Truthy(JScalar(node.o[k]))
                    THEN node.o[k] ELSE Absent]

\* {k: v for k, v in node.items() if v is not None and v != ""}
Cleaned(node) ==
    [k \in Keys |-> IF HasKey(node.o, k) /\ node.o[k] # VNull
                       /\ node.o[k] # VStr("")
                    THEN node.o[k] ELSE Absent]

\* create_nodes_batch(label, nodes) from the state st = [stmts, g, exc],
\* the store answering `reply`.  A record that is no dict has no items().
create_nodes_batch(lbl, nds, st, reply) ==
    IF nds = <<>> THEN st
    ELSE IF \E i \in 1..Len(nds) : nds[i].t # "obj"
    THEN [st EXCEPT !.exc = "AttributeError"]
    ELSE LET batch_data == [i \in 1..Len(nds) |-> Cleaned(nds[i])]
             r == g_run_create(st.g, lbl, batch_data, reply)
         IN  [stmts |-> Append(st.stmts,
                               Stmt("create_nodes", lbl, batch_data, r.ok)),
              g |-> r.g,
              exc |-> IF r.ok THEN "none" ELSE "StoreError"]

NameValues == {Absent, VNull, VStr(""), VStr("Acme")}
CodeValues == {VStr(""), VInt(0), VBool(FALSE), VList(0)}

\* The node records the writer is called with.
NodeRecords ==
    {JObj([EmptyDict EXCEPT !["name"] = nm, !["code"] = cd]) :
        nm \in NameValues, cd \in CodeValues}

InitNodes ==
    /\ pc = "call"
    /\ exc = "none"
    /\ stmts = <<>>
    /\ label \in Labels
    /\ \E u \in {{}, {label}} : g = [nodes |-> EmptyBag, uniq |-> u, idx |-> {}]
    /\ lines = <<>>
    /\ datas = <<>>
    /\ nodes \in SeqsUpTo(NodeRecords, MaxNodes)
    /\ edges = <<>>
    /\ attr_keys = <<>>
    /\ rel_groups = <<>>
    /\ runs = 0

\* One call handler.create_nodes_batch(label, nodes); the caller may call
\* again, whether the call returned or raised.
CallCreateNodesBatch ==
    /\ pc = "call"
    /\ runs < MaxRuns
    /\ \E reply \in Replies :
         LET r == create_nodes_batch(label, nodes,
                      [stmts |-> stmts, g |-> g, exc |-> "none"], reply)
         IN  /\ stmts' = r.stmts
             /\ g' = r.g
             /\ exc' = r.exc
    /\ runs' = runs + 1
    /\ UNCHANGED <<pc, lines, datas, label, nodes, edges, attr_keys,
                   rel_groups>>

NextNodes == CallCreateNodesBatch

SpecNodes == InitNodes /\ [][NextNodes]_vars

(***************************************************************************)
(* The schema initializer.                                                 *)
(***************************************************************************)
\* CREATE CONSTRAINT IF NOT EXISTS ... REQUIRE n.name IS UNIQUE: fails on an
\* error of the run, or when the label's nodes already share a name.
g_run_constraint(store, lbl, reply) ==
    LET ok == reply = "ok" /\ ~NamesClash(store.nodes, lbl)
    IN  [g |-> IF ok THEN [store EXCEPT !.uniq = @ \cup {lbl}] ELSE store,
         ok |-> ok]

\* CREATE INDEX IF NOT EXISTS ... ON (n.name)
g_run_index(store, lbl, reply) ==
    LET ok == reply = "ok"
    IN  [g |-> IF ok THEN [store EXCEPT !.idx = @ \cup {lbl}] ELSE store,
         ok |-> ok]

\* The mutant of ensure_index_and_constraint: the fallback index statement
\* is not guarded, so its failure leaves the call as an exception.
ensure_unguarded_index(lbl, st, creply, ireply) ==
    LET c == g_run_constraint(st.g, lbl, creply)
        s1 == Append(st.stmts, Stmt("constraint", lbl, <<>>, c.ok))
        x == g_run_index(c.g, lbl, ireply)
    IN  IF c.ok THEN [stmts |-> s1, g |-> c.g, exc |-> st.exc]
        ELSE [stmts |-> Append(s1, Stmt("index", lbl, <<>>, x.ok)),
              g |-> x.g,
              exc |-> IF x.ok THEN st.exc ELSE "StoreError"]

\* ensure_index_and_constraint(label): the constraint statement, and the
\* index statement when the constraint statement raised; both are caught.
ensure_index_and_constraint(lbl, st, creply, ireply) ==
    LET c == g_run_constraint(st.g, lbl, creply)
        s1 == Append(st.stmts, Stmt("constraint", lbl, <<>>, c.ok))
        x == g_run_index(c.g, lbl, ireply)
    IN  IF c.ok THEN [stmts |-> s1, g |-> c.g, exc |-> st.exc]
        ELSE [stmts |-> Append(s1, Stmt("index", lbl, <<>>, x.ok)),
              g |-> x.g,
              exc |-> st.exc]

\* create_indexes_and_constraints(): company, product, industry.  cr and ir
\* give the store's answer to each label's constraint and index statement.
create_indexes_and_constraints(st, cr, ir) ==
    LET a == ensure_index_and_constraint("company", st,
                                         cr["company"], ir["company"])
        b == IF a.exc # "none" THEN a
             ELSE ensure_index_and_constraint("product", a,
                                              cr["product"], ir["product"])
    IN  IF b.exc # "none" THEN b
        ELSE ensure_index_and_constraint("industry", b,
                                         cr["industry"], ir["industry"])

(***************************************************************************)
(* The dynamic relationship writer.                                        *)
(***************************************************************************)
\* str(v)
PyStr(v) ==
    CASE v.t = "str" -> v.s
      [] v.t = "int" -> (CASE v.n = 0 -> "0" [] v.n = 1 -> "1" [] OTHER -> "7")
      [] v.t = "bool" -> (IF v.n = 1 THEN "True" ELSE "False")
      [] v.t = "list" -> "[]"
      [] OTHER -> "None"

\* The row built from an edge: {"from": str(edge[from_key]),
\* "to": str(edge[to_key])} and the attributes of attr_keys the edge holds.
EdgeRow(edge, from_key, to_key, akeys) ==
    [from |-> PyStr(edge.o[from_key]),
     to |-> PyStr(edge.o[to_key]),
     attrs |-> [k \in {akeys[i] : i \in 1..Len(akeys)} |-> edge.o[k]]]

\* create_relationships_dynamic(start_label, end_label, edges, from_key,
\* to_key, attr_keys) from the state st.  An empty list returns at once.
\* Otherwise the first statement reached is rel_groups = defaultdict(list),
\* and the module imports only os, json and py2neo.Graph: the name
\* defaultdict is not defined, the lookup raises NameError, and nothing
\* after it (the grouping, the statements, their try/except) is executed.
create_relationships_dynamic(start_label, end_label, edgs, from_key, to_key, akeys, st) ==
    IF edgs = <<>> THEN st ELSE [st EXCEPT !.exc = "NameError"]

RelValues == {Absent, VStr(""), VStr("BELONGS_TO"), VStr("SUPPLIES")}

\* The edge records the relationship writer is called with.
EdgeRecords ==
    {JObj([EmptyDict EXCEPT !["rel"] = r, !["company_name"] = f,
                            !["industry_name"] = t, !["rel_weight"] = w]) :
        r \in RelValues, f \in {Absent, VStr("Acme")},
        t \in {Absent, VStr("Tech")}, w \in {Absent, VInt(1)}}

InitRel ==
    /\ pc = "call"
    /\ exc = "none"
    /\ stmts = <<>>
    /\ g = NoStore
    /\ lines = <<>>
    /\ datas = <<>>
    /\ label = ""
    /\ nodes = <<>>
    /\ edges \in SeqsUpTo(EdgeRecords, MaxEdges)
    /\ attr_keys \in {<<>>, <<"rel_weight">>}
    /\ rel_groups = <<>>
    /\ runs = 0

\* One call handler.create_relationships_dynamic('company', 'industry',
\* edges, 'company_name', 'industry_name', attr_keys).
CallCreateRelationshipsDynamic ==
    /\ pc = "call"
    /\ LET r == create_relationships_dynamic("company", "industry", edges,
                    "company_name", "industry_name", attr_keys,
                    [stmts |-> stmts, g |-> g, exc |-> "none"])
       IN  /\ stmts' = r.stmts
           /\ g' = r.g
           /\ exc' = r.exc
    /\ pc' = "done"
    /\ runs' = runs + 1
    /\ UNCHANGED <<lines, datas, label, nodes, edges, attr_keys, rel_groups>>

NextRel == CallCreateRelationshipsDynamic

SpecRel == InitRel /\ [][NextRel]_vars

(***************************************************************************)
(* The pipeline driver.                                                    *)
(***************************************************************************)
AcmeLine == "{\"name\": \"Acme\"}\n"

\* A data file: whether it exists, and its lines.
File(ls) == [exists |-> TRUE, lines |-> ls]
Missing == [exists |-> FALSE, lines |-> <<>>]

NodeFiles ==
    {Missing, File(<<>>), File(<<AcmeLine>>),
     File(<<AcmeLine, "not json\n", AcmeLine>>), File(<<"{}\n", "7\n">>)}

EdgeFiles == {Missing, File(<<>>), File(<<"\n", "{}\n">>), File(<<EdgeLine>>)}

\* create_graphnodes(): the three files are loaded (open() raises on a
\* missing file), then one batch is written per label.
create_graphnodes(st, company, product, industry, reply) ==
    IF ~company.exists \/ ~product.exists \/ ~industry.exists
    THEN [st EXCEPT !.exc = "FileNotFoundError"]
    ELSE LET a == create_nodes_batch("company", load_data(company.lines),
                                     st, reply["company"])
             b == IF a.exc # "none" THEN a
                  ELSE create_nodes_batch("product", load_data(product.lines),
                                          a, reply["product"])
         IN  IF b.exc # "none" THEN b
             ELSE create_nodes_batch("industry", load_data(industry.lines),
                                     b, reply["industry"])

\* create_graphrels(): the four files are loaded, then the four writer
\* calls are made in the order of the source.
create_graphrels(st, company_industry, company_product, product_product, industry_industry) ==
    IF \/ ~company_industry.exists \/ ~company_product.exists
       \/ ~product_product.exists \/ ~industry_industry.exists
    THEN [st EXCEPT !.exc = "FileNotFoundError"]
    ELSE LET a == create_relationships_dynamic("company", "industry",
                      load_data(company_industry.lines),
                      "company_name", "industry_name", <<>>, st)
             b == IF a.exc # "none" THEN a
                  ELSE create_relationships_dynamic("industry", "industry",
                           load_data(industry_industry.lines),
                           "from_industry", "to_industry", <<>>, a)
             c == IF b.exc # "none" THEN b
                  ELSE create_relationships_dynamic("company", "product",
                           load_data(company_product.lines),
                           "company_name", "product_name",
                           <<"rel_weight">>, b)
         IN  IF c.exc # "none" THEN c
             ELSE create_relationships_dynamic("product", "product",
                      load_data(product_product.lines),
                      "from_entity", "to_entity", <<>>, c)

\* After handler = MedicalGraph().
Init ==
    /\ pc = "create_graphnodes"
    /\ exc = "none"
    /\ stmts = <<>>
    /\ g = NoStore
    /\ lines = <<>>
    /\ datas = <<>>
    /\ label = ""
    /\ nodes = <<>>
    /\ edges = <<>>
    /\ attr_keys = <<>>
    /\ rel_groups = <<>>
    /\ runs = 0

\* The driver's step: the call returned and the next one is at `next`, or it
\* raised and the process ends with the exception.
Step(r, next) ==
    /\ stmts' = r.stmts
    /\ g' = r.g
    /\ exc' = r.exc
    /\ pc' = IF r.exc = "none" THEN next ELSE "crashed"
    /\ runs' = IF r.exc = "none" THEN runs + 1 ELSE runs
    /\ UNCHANGED <<lines, datas, label, nodes, edges, attr_keys, rel_groups>>

\* handler.create_graphnodes()
CreateGraphNodes ==
    /\ pc = "create_graphnodes"
    /\ \E company \in NodeFiles, product \in NodeFiles, industry \in NodeFiles,
          reply \in [Labels -> Replies] :
         Step(create_graphnodes([stmts |-> stmts, g |-> g, exc |-> exc],
                                company, product, industry, reply),
              "create_indexes_and_constraints")

\* handler.create_indexes_and_constraints()
CreateIndexesAndConstraints ==
    /\ pc = "create_indexes_and_constraints"
    /\ \E cr \in [Labels -> Replies], ir \in [Labels -> Replies] :
         Step(create_indexes_and_constraints(
                  [stmts |-> stmts, g |-> g, exc |-> exc], cr, ir),
              "create_graphrels")

\* handler.create_graphrels()
CreateGraphRels ==
    /\ pc = "create_graphrels"
    /\ \E ci \in EdgeFiles, cp \in EdgeFiles, pp \in EdgeFiles,
          ii \in EdgeFiles :
         Step(create_graphrels([stmts |-> stmts, g |-> g, exc |-> exc],
                               ci, cp, pp, ii),
              "exit")

Next ==
    \/ CreateGraphNodes
    \/ CreateIndexesAndConstraints
    \/ CreateGraphRels

Spec == Init /\ [][Next]_vars

(***************************************************************************)
(* Claims about load_data (checked under SpecLoad).                        *)
(***************************************************************************)
NonBlank(i) == Strip(lines[i]) # ""
ValidJson(i) == NonBlank(i) /\ JsonLoads(Strip(lines[i])).ok
ParsedValue(i) == JsonLoads(Strip(lines[i])).val
ValidTruthy(i) == ValidJson(i) /\ Truthy(ParsedValue(i))
ValidUpTo(i) == Cardinality({j \in 1..i : ValidJson(j)})
TruthyUpTo(i) == Cardinality({j \in 1..i : ValidTruthy(j)})

\* C1 (as claimed): load_data returns one record per non-blank line that is
\* syntactically valid JSON, whatever value it parses to, in file order.
C1_OneRecordPerValidLine ==
    pc = "loaded" =>
        /\ Len(datas) = ValidUpTo(Len(lines))
        /\ \A i \in 1..Len(lines) :
               ValidJson(i) =>
                   /\ ValidUpTo(i) <= Len(datas)
                   /\ datas[ValidUpTo(i)] = ParsedValue(i)

\* C1 (amended): load_data returns one record per non-blank line that is
\* syntactically valid JSON and parses to a truthy value, in file order;
\* lines that fail to parse, and lines that parse to a falsy value (an empty
\* object, an empty list, 0, null), contribute nothing.
C1_OneRecordPerTruthyValidLine ==
    pc = "loaded" =>
        /\ Len(datas) = TruthyUpTo(Len(lines))
        /\ \A i \in 1..Len(lines) :
               ValidTruthy(i) =>
                   /\ TruthyUpTo(i) <= Len(datas)
                   /\ datas[TruthyUpTo(i)] = ParsedValue(i)

\* A file was loaded that holds a blank line, an unparseable line, a line
\* that parses to a falsy value and two lines that parse to records.
C1_Witness ==
    /\ pc = "loaded"
    /\ Len(datas) >= 1
    /\ \E i \in 1..Len(lines) : ~NonBlank(i) \/ (NonBlank(i) /\ ~ValidJson(i))
    /\ \E i \in 1..Len(lines) : ValidJson(i) /\ ~ValidTruthy(i)
    /\ \E i \in 1..Len(lines) : ValidTruthy(i)

(***************************************************************************)
(* Claims about create_nodes_batch (checked under SpecNodes).              *)
(***************************************************************************)
NodeStmts == {i \in 1..Len(stmts) : stmts[i].kind = "create_nodes"}
OkCount == Cardinality({i \in 1..Len(stmts) : stmts[i].ok})
Unset(v) == v = VNull \/ v = VStr("")

\* C5: the mapping submitted for a record holds exactly the record's keys
\* whose value is neither null nor the empty string, with the values
\* unchanged; keys holding 0, false or an empty list are kept.
C5_SubmittedMappingIsRecordMinusUnset ==
    \A j \in NodeStmts :
        /\ Len(stmts[j].batch) = Len(nodes)
        /\ \A i \in 1..Len(nodes), k \in Keys :
               /\ HasKey(stmts[j].batch[i], k)
                    <=> (HasKey(nodes[i].o, k) /\ ~Unset(nodes[i].o[k]))
               /\ HasKey(stmts[j].batch[i], k)
                    => stmts[j].batch[i][k] = nodes[i].o[k]

\* A statement was submitted for a batch with a record whose name is null
\* and whose code is 0, and one whose name is set and whose code is "".
C5_Witness ==
    \E j \in NodeStmts : \E i1 \in 1..Len(nodes), i2 \in 1..Len(nodes) :
        /\ nodes[i1].o["name"] = VNull
        /\ nodes[i1].o["code"] = VInt(0)
        /\ stmts[j].batch[i1]["code"] = VInt(0)
        /\ ~HasKey(stmts[j].batch[i1], "name")
        /\ nodes[i2].o["name"] = VStr("Acme")
        /\ nodes[i2].o["code"] = VStr("")
        /\ ~HasKey(stmts[j].batch[i2], "code")

\* C6: every mapping submitted for node creation, and so every node the
\* store holds, has a non-empty name.
C6_EverySubmittedNodeHasName ==
    /\ \A j \in NodeStmts : \A i \in 1..Len(stmts[j].batch) :
           /\ HasKey(stmts[j].batch[i], "name")
           /\ stmts[j].batch[i]["name"] # VStr("")
    /\ \A x \in BagToSet(g.nodes) :
           HasKey(x.props, "name") /\ x.props["name"] # VStr("")

\* C9: every call with a non-empty list of n records issues one create
\* statement of n rows, and every statement that succeeds adds n nodes to
\* what the store holds: after k successful calls on the same input the
\* store holds k nodes per record (2n nodes after two), none merged by name.
C9_EveryCallCreatesNewNodes ==
    /\ Len(stmts) = (IF nodes = <<>> THEN 0 ELSE runs)
    /\ \A j \in 1..Len(stmts) :
           /\ stmts[j].kind = "create_nodes"
           /\ stmts[j].label = label
           /\ Len(stmts[j].batch) = Len(nodes)
    /\ BagCardinality(g.nodes) = OkCount * Len(nodes)
    /\ \A x \in BagToSet(g.nodes) :
           /\ x.label = label
           /\ CopiesIn(x, g.nodes)
                = OkCount * Cardinality({i \in 1..Len(nodes) :
                                            Cleaned(nodes[i]) = x.props})

\* Node creation ran twice on the same two named records, the store
\* enforcing no uniqueness constraint, and the store holds four nodes.
C9_Witness ==
    /\ runs = 2
    /\ g.uniq = {}
    /\ Len(nodes) = 2
    /\ \A i \in 1..Len(nodes) : nodes[i].o["name"] = VStr("Acme")
    /\ OkCount = 2
    /\ BagCardinality(g.nodes) = 4

(***************************************************************************)
(* Claims about create_relationships_dynamic (checked under SpecRel).      *)
(***************************************************************************)
Survives(e) ==
    HasKey(e.o, "rel") /\ HasKey(e.o, "company_name")
        /\ HasKey(e.o, "industry_name")
Survivors == SelectSeq(edges, Survives)
SurvivingRels == {Survivors[i].o["rel"] : i \in 1..Len(Survivors)}
GroupRows(r) ==
    LET es == SelectSeq(Survivors, LAMBDA e : e.o["rel"] = r)
    IN  [i \in 1..Len(es) |->
            EdgeRow(es[i], "company_name", "industry_name", attr_keys)]
FirstIndex(r) ==
    CHOOSE i \in 1..Len(Survivors) :
        /\ Survivors[i].o["rel"] = r
        /\ \A j \in 1..Len(Survivors) : Survivors[j].o["rel"] = r => i <= j
RelStmts == {j \in 1..Len(stmts) : stmts[j].kind = "create_rel"}
AttrSet == {attr_keys[i] : i \in 1..Len(attr_keys)}

\* C2: once the call has ended, the groups built are a stable partition of
\* the surviving records: one group per rel value, holding the rows of the
\* records with that rel in input order, and nothing else.
C2_GroupsAreStablePartition ==
    pc = "done" =>
        /\ \A r \in SurvivingRels :
               \E i \in 1..Len(rel_groups) :
                   /\ rel_groups[i].rel = r
                   /\ rel_groups[i].batch = GroupRows(r)
        /\ \A i \in 1..Len(rel_groups) : rel_groups[i].rel \in SurvivingRels
        /\ \A i \in 1..Len(rel_groups), j \in 1..Len(rel_groups) :
               rel_groups[i].rel = rel_groups[j].rel => i = j

\* C3: the call issues exactly one store statement per distinct rel value
\* among the surviving records and returns normally.
C3_OneStatementPerRelAndReturns ==
    pc = "done" =>
        /\ exc = "none"
        /\ Len(stmts) = Cardinality(SurvivingRels)
        /\ Cardinality(RelStmts) = Cardinality(SurvivingRels)

\* C4: every group's statement is attempted exactly once, in group order,
\* whichever of them fail, and the call returns normally.
C4_GroupFailuresAreIsolated ==
    pc = "done" =>
        /\ exc = "none"
        /\ \A r \in SurvivingRels :
               Cardinality({j \in RelStmts : stmts[j].label = PyStr(r)}) = 1
        /\ \A r1 \in SurvivingRels, r2 \in SurvivingRels :
               \A j1 \in RelStmts, j2 \in RelStmts :
                   (/\ stmts[j1].label = PyStr(r1)
                    /\ stmts[j2].label = PyStr(r2)
                    /\ FirstIndex(r1) < FirstIndex(r2)) => j1 < j2

\* C10: the SET clause of a group's statement names exactly the attributes
\* of attr_keys that some row of that group holds.
C10_SetClauseInferredPerGroup ==
    pc = "done" =>
        \A r \in SurvivingRels :
            \E j \in RelStmts :
                /\ stmts[j].label = PyStr(r)
                /\ stmts[j].set =
                       {k \in AttrSet :
                           \E i \in 1..Len(GroupRows(r)) :
                               HasKey(GroupRows(r)[i].attrs, k)}

(***************************************************************************)
(* Claims about the schema initializer and the driver (checked under       *)
(* Spec).                                                                  *)
(***************************************************************************)
ConstraintAt(l) ==
    {i \in 1..Len(stmts) : stmts[i].kind = "constraint" /\ stmts[i].label = l}
IndexAt(l) ==
    {i \in 1..Len(stmts) : stmts[i].kind = "index" /\ stmts[i].label = l}

\* C7: create_indexes_and_constraints never raises, and when it has
\* returned each label's constraint statement was attempted exactly once,
\* in the order company, product, industry, and a label's index statement
\* was attempted (right after) exactly when its constraint statement failed.
C7_SchemaFaultTolerantPerLabel ==
    /\ pc = "crashed" => runs # 1
    /\ runs >= 2 =>
         /\ \A l \in Labels : Cardinality(ConstraintAt(l)) = 1
         /\ \A l \in Labels : \A i \in ConstraintAt(l) :
                IndexAt(l) = (IF stmts[i].ok THEN {} ELSE {i + 1})
         /\ \A i \in ConstraintAt("company"), j \in ConstraintAt("product"),
               k \in ConstraintAt("industry") : i < j /\ j < k

\* The schema stage returned after company's constraint and index both
\* failed, product's constraint failed and its index succeeded, and
\* industry's constraint succeeded.
C7_Witness ==
    /\ runs >= 2
    /\ \E i \in ConstraintAt("company"), j \in IndexAt("company") :
           ~stmts[i].ok /\ ~stmts[j].ok
    /\ \E i \in ConstraintAt("product"), j \in IndexAt("product") :
           ~stmts[i].ok /\ stmts[j].ok
    /\ \E i \in ConstraintAt("industry") : stmts[i].ok

StageOf(kind) ==
    CASE kind = "create_nodes" -> 1
      [] kind \in {"constraint", "index"} -> 2
      [] OTHER -> 3

\* C8: the statements occur in the order nodes, schema, relationships, each
\* stage starting only when the one before has returned, and a run ends
\* abnormally only on a store failure or a file failure (a missing file, or
\* a file holding a record that is no object).
C8_StagesInOrderAndRunCompletes ==
    /\ \A i \in 1..Len(stmts), j \in 1..Len(stmts) :
           i < j => StageOf(stmts[i].kind) <= StageOf(stmts[j].kind)
    /\ (\E i \in 1..Len(stmts) : StageOf(stmts[i].kind) = 2) => runs >= 1
    /\ (\E i \in 1..Len(stmts) : StageOf(stmts[i].kind) = 3) => runs >= 2
    /\ pc = "crashed" =>
           exc \in {"StoreError", "FileNotFoundError", "AttributeError"}

=============================================================================
